---- MODULE Spec2Model ----
(***************************************************************************)
(* Braille codec (BrailleTranslationService), print job pipeline and       *)
(* connection handling (BLEDeviceService, device slice) of BrailleTutorApp.*)
(*                                                                         *)
(* Characters are one-character strings; a text is a sequence of them.     *)
(* A Braille Unicode glyph is its code point minus 0x2800 (0..63), a dots  *)
(* array is a sequence of dot numbers, as in the source tables.            *)
(***************************************************************************)
EXTENDS Integers, Sequences, FiniteSets, TLC

VARIABLES
    text,          \* codec: the input of textToBraille
    translation,   \* codec: the TranslationResult of textToBraille(text)
    decoded,       \* codec: brailleToText(translation.brailleUnicode)
    cpc,           \* codec: "start" | "encoded" | "decoded" | "idle"
    connectedDevice,   \* BLEDeviceService._connectedDevice (its id) or NoDevice
    discoveredDevices, \* CustomBLEService.discoveredDevices: id -> connected flag
    customConnected,   \* CustomBLEService.connectedDevice (its id) or NoDevice
    printQueue,    \* BLEDeviceService.printQueue: the PrintJob objects
    calls,         \* one frame per printBraille invocation that created a job
    events,        \* what emitEvent handed to the listeners, in order
    writes,        \* the BleManager.write calls issued on the link, in order
    now,           \* Date.now()
    dpc,           \* the disconnect() invocation in flight, if any
    conn,          \* the connect() invocation in flight, if any
    slice,         \* the device slice of the store
    poll,          \* the getDeviceStatus() invocation and what it returned
    scan,          \* CustomBLEService.scanning, the startScan calls, their timers
    lookup,        \* a dotsToCharacter(dots) call: its input and what it returned
    offline        \* OfflineSyncService: the stored queue and the calls in flight

codecVars == <<text, translation, decoded, cpc>>

deviceVars == <<connectedDevice, discoveredDevices, customConnected, printQueue,
                calls, events, writes, now, dpc, conn, slice, poll>>

\* the state no codec, print, connection or status step touches
restVars == <<scan, lookup, offline>>

vars == <<text, translation, decoded, cpc, connectedDevice, discoveredDevices,
          customConnected, printQueue, calls, events, writes, now, dpc, conn,
          slice, poll, scan, lookup, offline>>

(***************************************************************************)
(* Bounds                                                                  *)
(***************************************************************************)
MaxLen == 3    \* longest text over SmallAlphabet given to the codec

(***************************************************************************)
(* Character classes used by textToBraille / brailleToText                 *)
(***************************************************************************)
LowerLetters == <<"a","b","c","d","e","f","g","h","i","j","k","l","m",
                  "n","o","p","q","r","s","t","u","v","w","x","y","z">>
UpperLetters == <<"A","B","C","D","E","F","G","H","I","J","K","L","M",
                  "N","O","P","Q","R","S","T","U","V","W","X","Y","Z">>
DigitKeys    == <<"0","1","2","3","4","5","6","7","8","9">>

Range(s) == {s[i] : i \in DOMAIN s}

IsUpper(c) == c \in Range(UpperLetters)     \* /[A-Z]/.test(char)
IsDigit(c) == c \in Range(DigitKeys)        \* /[0-9]/.test(char)
IsAtoJ(c)  == c \in {LowerLetters[i] : i \in 1..10}   \* /[a-j]/.test(converted)

IndexOf(s, c) == CHOOSE i \in DOMAIN s : s[i] = c

\* faulty variant of toLowerCase: the character is looked up as it is
sameCase(c) == c

\* String.prototype.toLowerCase / toUpperCase on the characters of the model
toLowerCase(c) == IF IsUpper(c) THEN LowerLetters[IndexOf(UpperLetters, c)] ELSE c
toUpperCase(c) == IF c \in Range(LowerLetters)
                  THEN UpperLetters[IndexOf(LowerLetters, c)] ELSE c

(***************************************************************************)
(* BRAILLE_PATTERNS: the object literal, key/glyph pairs in source order.  *)
(***************************************************************************)
Undefined == "undefined"

PatternSource ==
    << <<"a",1>>,  <<"b",3>>,  <<"c",9>>,  <<"d",25>>, <<"e",17>>,
       <<"f",11>>, <<"g",27>>, <<"h",19>>, <<"i",10>>, <<"j",26>>,
       <<"k",5>>,  <<"l",7>>,  <<"m",13>>, <<"n",29>>, <<"o",21>>,
       <<"p",15>>, <<"q",31>>, <<"r",23>>, <<"s",14>>, <<"t",30>>,
       <<"u",37>>, <<"v",39>>, <<"w",58>>, <<"x",45>>, <<"y",61>>,
       <<"z",53>>,
       <<"1",1>>,  <<"2",3>>,  <<"3",9>>,  <<"4",25>>, <<"5",17>>,
       <<"6",11>>, <<"7",27>>, <<"8",19>>, <<"9",10>>, <<"0",26>>,
       <<" ",0>>,
       <<".",50>>, <<",",2>>,  <<"?",38>>, <<"!",22>>,
       <<"'",4>>,  <<"\"",38>>, <<"-",36>>, <<":",18>>,
       <<";",6>>,  <<"(",54>>, <<")",54>>,
       <<"capital",32>>, <<"number",60>> >>

HasKey(src, key) == \E i \in DOMAIN src : src[i][1] = key

\* obj[key] for a key the object has: the value of the last pair with that key
Lookup(src, key) ==
    LET hits == {i \in DOMAIN src : src[i][1] = key}
    IN  src[CHOOSE i \in hits : \A j \in hits : j <= i][2]

\* BRAILLE_PATTERNS[key], for a key that is defined
BRAILLE_PATTERNS(key) == Lookup(PatternSource, key)

\* BRAILLE_PATTERNS[key] is not undefined (every glyph is a truthy string)
HasPattern(key) == HasKey(PatternSource, key)

\* Object.entries order: integer keys ascending first, then the other keys in
\* insertion order
ObjectEntries(src) ==
    LET ints == SelectSeq(DigitKeys, LAMBDA k : HasKey(src, k))
        intEntries == [i \in DOMAIN ints |-> <<ints[i], Lookup(src, ints[i])>>]
    IN  intEntries \o SelectSeq(src, LAMBDA p : ~IsDigit(p[1]))

\* text.length === 1 && text !== 'capital' && text !== 'number'
IsSingleCharKey(k) == k \notin {"capital", "number"}

\* BRAILLE_TO_TEXT[glyph]: built by assigning every entry in turn, so the
\* last entry with a glyph wins
BRAILLE_TO_TEXT(glyph) ==
    LET entries == SelectSeq(ObjectEntries(PatternSource),
                             LAMBDA p : IsSingleCharKey(p[1]))
        hits == {i \in DOMAIN entries : entries[i][2] = glyph}
    IN  IF hits = {} THEN Undefined
        ELSE entries[CHOOSE i \in hits : \A j \in hits : j <= i][1]

(***************************************************************************)
(* DOT_PATTERNS                                                            *)
(***************************************************************************)
DotSource ==
    << <<"a",<<1>>>>,       <<"b",<<1,2>>>>,     <<"c",<<1,4>>>>,
       <<"d",<<1,4,5>>>>,   <<"e",<<1,5>>>>,     <<"f",<<1,2,4>>>>,
       <<"g",<<1,2,4,5>>>>, <<"h",<<1,2,5>>>>,   <<"i",<<2,4>>>>,
       <<"j",<<2,4,5>>>>,   <<"k",<<1,3>>>>,     <<"l",<<1,2,3>>>>,
       <<"m",<<1,3,4>>>>,   <<"n",<<1,3,4,5>>>>, <<"o",<<1,3,5>>>>,
       <<"p",<<1,2,3,4>>>>, <<"q",<<1,2,3,4,5>>>>, <<"r",<<1,2,3,5>>>>,
       <<"s",<<2,3,4>>>>,   <<"t",<<2,3,4,5>>>>, <<"u",<<1,3,6>>>>,
       <<"v",<<1,2,3,6>>>>, <<"w",<<2,4,5,6>>>>, <<"x",<<1,3,4,6>>>>,
       <<"y",<<1,3,4,5,6>>>>, <<"z",<<1,3,5,6>>>>,
       <<"1",<<1>>>>,       <<"2",<<1,2>>>>,     <<"3",<<1,4>>>>,
       <<"4",<<1,4,5>>>>,   <<"5",<<1,5>>>>,     <<"6",<<1,2,4>>>>,
       <<"7",<<1,2,4,5>>>>, <<"8",<<1,2,5>>>>,   <<"9",<<2,4>>>>,
       <<"0",<<2,4,5>>>>,
       <<" ",<<>>>>,
       <<".",<<2,5,6>>>>,   <<",",<<2>>>>,       <<"?",<<2,3,6>>>>,
       <<"!",<<2,3,5>>>>,
       <<"capital",<<6>>>>, <<"number",<<3,4,5,6>>>> >>

\* DOT_PATTERNS[key] || []
DOT_PATTERNS(key) ==
    IF HasKey(DotSource, key) THEN Lookup(DotSource, key) ELSE <<>>

(***************************************************************************)
(* BrailleTranslationService.textToBraille                                 *)
(***************************************************************************)
createCell(character, unicode, dots) ==
    [character |-> character, dots |-> dots, unicode |-> unicode]

\* the state of the for loop: the three arrays and the flag
LoopStart == [cells |-> <<>>, brailleUnicode |-> <<>>, dotSequence |-> <<>>,
              isNumberMode |-> FALSE]

\* cells.push(cell); brailleUnicode += cell.unicode; dotSequence.push(cell.dots)
PushCell(st, cell) ==
    [st EXCEPT !.cells = Append(@, cell),
               !.brailleUnicode = Append(@, cell.unicode),
               !.dotSequence = Append(@, cell.dots)]

\* Handle capitals
HandleCapital(st, char) ==
    IF char # toLowerCase(char) /\ IsUpper(char)
    THEN [PushCell(st, createCell("capital", BRAILLE_PATTERNS("capital"),
                                  DOT_PATTERNS("capital")))
             EXCEPT !.isNumberMode = FALSE]
    ELSE st

\* faulty variant of HandleNumber: the test of isNumberMode is not negated
HandleNumberNotNegated(st, char) ==
    IF IsDigit(char) /\ st.isNumberMode
    THEN [PushCell(st, createCell("number", BRAILLE_PATTERNS("number"),
                                  DOT_PATTERNS("number")))
             EXCEPT !.isNumberMode = TRUE]
    ELSE st

\* Handle numbers
HandleNumber(st, char) ==
    IF IsDigit(char) /\ ~st.isNumberMode
    THEN [PushCell(st, createCell("number", BRAILLE_PATTERNS("number"),
                                  DOT_PATTERNS("number")))
             EXCEPT !.isNumberMode = TRUE]
    ELSE st

\* Reset number mode on non-number
ResetNumberMode(st, char) ==
    IF ~IsDigit(char) /\ char # " "
    THEN [st EXCEPT !.isNumberMode = FALSE]
    ELSE st

\* faulty variant of PushPattern: dotSequence.push(dots) outside the if
PushPatternDotsAlways(st, char) ==
    LET lowerChar == toLowerCase(char)
        dots == DOT_PATTERNS(lowerChar)
    IN  IF HasPattern(lowerChar)
        THEN PushCell(st, createCell(char, BRAILLE_PATTERNS(lowerChar), dots))
        ELSE [st EXCEPT !.dotSequence = Append(@, dots)]

\* Get the Braille pattern; if (pattern) push the cell of the character
PushPattern(st, char) ==
    LET lowerChar == toLowerCase(char)
        dots == DOT_PATTERNS(lowerChar)
    IN  IF HasPattern(lowerChar)
        THEN PushCell(st, createCell(char, BRAILLE_PATTERNS(lowerChar), dots))
        ELSE st

\* one iteration of the for loop
EncodeChar(st, char) ==
    PushPattern(ResetNumberMode(HandleNumber(HandleCapital(st, char), char),
                                char), char)

RECURSIVE EncodeLoop(_, _, _)
EncodeLoop(st, txt, i) ==
    IF i > Len(txt) THEN st
    ELSE EncodeLoop(EncodeChar(st, txt[i]), txt, i + 1)

textToBraille(txt) ==
    LET fin == EncodeLoop(LoopStart, txt, 1)
    IN  [text |-> txt,
         brailleUnicode |-> fin.brailleUnicode,
         cells |-> fin.cells,
         dotSequence |-> fin.dotSequence]

(***************************************************************************)
(* BrailleTranslationService.brailleToText                                 *)
(***************************************************************************)
numMap == <<"1","2","3","4","5","6","7","8","9","0">>   \* a..j -> 1..0

\* one iteration; st = [text, capitalNext, numberMode]
DecodeGlyph(st, char) ==
    IF char = BRAILLE_PATTERNS("capital")
    THEN [st EXCEPT !.capitalNext = TRUE]
    ELSE IF char = BRAILLE_PATTERNS("number")
    THEN [st EXCEPT !.numberMode = TRUE]
    ELSE
      LET raw == BRAILLE_TO_TEXT(char)
          conv0 == IF raw = Undefined THEN <<>> ELSE <<raw>>   \* || ''
          conv1 == IF st.numberMode /\ conv0 # <<>> /\ IsAtoJ(conv0[1])
                   THEN <<numMap[IndexOf(LowerLetters, conv0[1])]>>
                   ELSE conv0
          doCap == st.capitalNext /\ conv1 # <<>>
          conv2 == IF doCap THEN <<toUpperCase(conv1[1])>> ELSE conv1
          cap2  == IF doCap THEN FALSE ELSE st.capitalNext
          num2  == IF char = 0 \/ conv2 = <<" ">> THEN FALSE ELSE st.numberMode
      IN  [text |-> st.text \o conv2, capitalNext |-> cap2, numberMode |-> num2]

RECURSIVE DecodeLoop(_, _, _)
DecodeLoop(st, glyphs, i) ==
    IF i > Len(glyphs) THEN st
    ELSE DecodeLoop(DecodeGlyph(st, glyphs[i]), glyphs, i + 1)

brailleToText(brailleUnicode) ==
    DecodeLoop([text |-> <<>>, capitalNext |-> FALSE, numberMode |-> FALSE],
               brailleUnicode, 1).text

(***************************************************************************)
(* Device side, as constructed: nothing discovered, connected or queued.   *)
(***************************************************************************)
NoDevice == "none"
NoJob == 0

InitialSlice == [connected |-> FALSE, currentJob |-> NoJob, status |-> "idle"]

\* a DeviceStatus: errorCode is <<>> for null or <<code>>, errorMessage is <<>>
\* for null, <<text>> for a table entry or <<"Unknown error", code>>
DeviceStatus(connected, batteryLevel, paperLoaded, errorCode, errorMessage) ==
    [connected |-> connected, batteryLevel |-> batteryLevel,
     paperLoaded |-> paperLoaded, errorCode |-> errorCode,
     errorMessage |-> errorMessage]

NoStatus == DeviceStatus(FALSE, 0, FALSE, <<>>, <<>>)

\* no getDeviceStatus() call made yet.  read tells how the read of the latest
\* call went ("none", "ok", "failed"), data holds the bytes of the latest read
\* that succeeded and lastGood the status returned for them
PollIdle == [pc |-> "idle", data |-> <<>>, result |-> NoStatus, read |-> "none",
             lastGood |-> <<>>, polls |-> 0]

\* no startScan call made yet: not scanning, no timer pending.  frames holds
\* one entry per BLEDeviceService.startScan call, timers the setTimeout
\* callbacks still to run; live (the ids native discovery reported), active
\* (the calls whose scan neither a stopScan call nor their own 10 s timer has
\* ended), refused (the ids connect() answered with device-not-found) and
\* stops (the stopScan calls made) record what happened
ScanIdle == [scanning |-> FALSE, frames |-> <<>>, timers |-> <<>>, live |-> {},
             active |-> {}, refused |-> {}, stops |-> 0]

\* no dotsToCharacter call made yet
LookupIdle == [pc |-> "idle", dots |-> <<>>, char |-> ""]

\* OfflineSyncService as constructed, with nothing stored: adds holds one
\* frame per queueAction call, sync the syncOfflineQueue run; queued (the ids
\* whose queueAction returned) and processed (the ids a run synced or dropped
\* at their fifth failure) record what happened
OfflineIdle == [stored |-> <<>>, isOnline |-> TRUE, syncInProgress |-> FALSE,
                adds |-> <<>>,
                sync |-> [pc |-> "idle", queue |-> <<>>, i |-> 1,
                          remainingItems |-> <<>>],
                queued |-> {}, processed |-> {}, syncs |-> 0]

RestIdle ==
    /\ scan = ScanIdle
    /\ lookup = LookupIdle
    /\ offline = OfflineIdle

DeviceIdle ==
    /\ RestIdle
    /\ connectedDevice = NoDevice
    /\ discoveredDevices = <<>>
    /\ customConnected = NoDevice
    /\ printQueue = <<>>
    /\ calls = <<>>
    /\ events = <<>>
    /\ writes = <<>>
    /\ now = 1
    /\ dpc = "idle"
    /\ conn = [pc |-> "idle", dev |-> NoDevice]
    /\ slice = InitialSlice
    /\ poll = PollIdle

(***************************************************************************)
(* Codec specification: a text is drawn, encoded, and decoded again.       *)
(***************************************************************************)
Punctuation == {" ", ".", ",", "?", "!", "'", "\"", "-", ":", ";", "(", ")"}

\* every character the codec maps, plus one it does not ("#")
AllChars == Range(LowerLetters) \cup Range(UpperLetters) \cup Range(DigitKeys)
            \cup Punctuation \cup {"#"}

SmallAlphabet == {"a", "k", "B", "1", "2", " ", "#"}

RECURSIVE TextsUpTo(_, _)
TextsUpTo(alphabet, n) ==
    IF n = 0 THEN {<<>>}
    ELSE LET shorter == TextsUpTo(alphabet, n - 1)
         IN  shorter \cup {Append(t, c) : t \in shorter, c \in alphabet}

\* texts with a letter between two digits
MixedTexts == {<<"A", "1", "B", "2">>, <<"1", "a", "2">>}

CodecInputs == {<<c>> : c \in AllChars} \cup TextsUpTo(SmallAlphabet, MaxLen)
               \cup MixedTexts

NoTranslation == [text |-> <<>>, brailleUnicode |-> <<>>, cells |-> <<>>,
                  dotSequence |-> <<>>]

CodecInit ==
    /\ text \in CodecInputs
    /\ translation = NoTranslation
    /\ decoded = <<>>
    /\ cpc = "start"
    /\ DeviceIdle

Encode ==
    /\ cpc = "start"
    /\ translation' = textToBraille(text)
    /\ cpc' = "encoded"
    /\ UNCHANGED <<text, decoded>>
    /\ UNCHANGED deviceVars
    /\ UNCHANGED restVars

Decode ==
    /\ cpc = "encoded"
    /\ decoded' = brailleToText(translation.brailleUnicode)
    /\ cpc' = "decoded"
    /\ UNCHANGED <<text, translation>>
    /\ UNCHANGED deviceVars
    /\ UNCHANGED restVars

CodecNext == Encode \/ Decode

CodecSpec == CodecInit /\ [][CodecNext]_vars

(***************************************************************************)
(* C1  Single-character round trip: for every letter a-z and A-Z, digit    *)
(* 0-9 and mapped punctuation character c, decoding the encoding of c      *)
(* gives back exactly c.                                                   *)
(***************************************************************************)
RoundTripChars == Range(LowerLetters) \cup Range(UpperLetters)
                  \cup Range(DigitKeys) \cup Punctuation

C1_RoundTripSingle ==
    (cpc = "decoded" /\ Len(text) = 1 /\ text[1] \in RoundTripChars)
        => decoded = text

(***************************************************************************)
(* C2  A numeral indicator cell stands immediately before the cell of a    *)
(* digit exactly when the digit is not immediately preceded in the input   *)
(* by another digit (so "1 2" gets two indicators).                        *)
(***************************************************************************)
\* index in cells of the cell emitted for text[i] (text[i] is a mapped char)
CellIndexOf(txt, i) == Len(textToBraille(SubSeq(txt, 1, i)).cells)

IndicatorBefore(cells, idx) ==
    idx > 1 /\ cells[idx - 1].character = "number"

C2_IndicatorPerDigitRun ==
    cpc # "start" =>
        \A i \in DOMAIN text :
            IsDigit(text[i]) =>
                (IndicatorBefore(translation.cells, CellIndexOf(text, i))
                    <=> (i = 1 \/ ~IsDigit(text[i - 1])))

(***************************************************************************)
(* BLEDeviceService: print pipeline                                        *)
(***************************************************************************)
MaxCells == 205      \* longest payload of a job printed alone
MaxCellsLink == 21   \* longest payload of a job printed while the link changes
MaxConnects == 1     \* connect() calls while a job is printed
MaxClock == 2        \* Date.now() takes the values 1..MaxClock
MaxJobs == 2         \* printBraille calls that run concurrently
MaxCellsConc == 21   \* longest payload of a job printed concurrently

chunkSize == 20      \* BLE MTU limit
PrintCommand == 1    \* [0x01], the print command

Devices == {"BRAILLE_001", "BRAILLE_002"}
Callers == {"thunk", "screen"}   \* printBrailleText, printChallengeToDevice

Min(a, b) == IF a < b THEN a ELSE b

\* the dotSequence handed to printBraille: textToBraille(...).dotSequence of a
\* text with a capital, a letter, a digit, a space and punctuation, repeated
BaseCells == textToBraille(<<"A", "z", "1", " ", "?">>).dotSequence
Seeds == {0, 3}
Payload(n, seed) ==
    [k \in 1..n |-> BaseCells[((k + seed) % Len(BaseCells)) + 1]]

BrailleData(job) == Payload(job.n, job.seed)

RECURSIVE Pow2(_)
Pow2(e) == IF e = 0 THEN 1 ELSE 2 * Pow2(e - 1)

\* byte |= (1 << shift)
OrBit(byte, shift) ==
    IF (byte \div Pow2(shift)) % 2 = 1 THEN byte ELSE byte + Pow2(shift)

RECURSIVE EncodeDots(_, _, _)
EncodeDots(dots, k, byte) ==
    IF k > Len(dots) THEN byte
    ELSE EncodeDots(dots, k + 1, OrBit(byte, dots[k] - 1))

\* faulty variant of encodePrintData: byte |= (1 << dot)
RECURSIVE EncodeDotsUnshifted(_, _, _)
EncodeDotsUnshifted(dots, k, byte) ==
    IF k > Len(dots) THEN byte
    ELSE EncodeDotsUnshifted(dots, k + 1, OrBit(byte, dots[k]))

encodePrintDataUnshifted(cells) ==
    [c \in DOMAIN cells |-> EncodeDotsUnshifted(cells[c], 1, 0)]

encodePrintData(cells) == [c \in DOMAIN cells |-> EncodeDots(cells[c], 1, 0)]

\* dotSequence.slice(i, i + chunkSize), i counted from 0
ChunkAt(cells, i) == SubSeq(cells, i + 1, Min(i + chunkSize, Len(cells)))

\* faulty variant of MoreChunks: the loop ends one chunk early
MoreChunksEndsEarly(i, totalCells) == i + chunkSize < totalCells

\* the loop condition i < totalCells
MoreChunks(i, totalCells) == i < totalCells

\* Math.round((done / total) * 100); the double arithmetic of the source
\* agrees with this integer form for every total below 800
RoundPercent(done, total) == (200 * done + total) \div (2 * total)

Ev(event, job, jobId, progress, deviceId) ==
    [event |-> event, job |-> job, jobId |-> jobId, progress |-> progress,
     deviceId |-> deviceId]

Wr(job, kind, data, device) ==
    [job |-> job, kind |-> kind, data |-> data, device |-> device]

\* A frame of printBraille: pc, the loop index i, the caller and the returned
\* success flag; cause (what threw) and cleared (the number of writes issued
\* when _connectedDevice was cleared under the running job, or -1) record the
\* history the properties speak about; cancelled is the number of writes
\* issued when cancelJob was dispatched for the running job, or -1.
NewFrame(pc, caller) ==
    [pc |-> pc, i |-> 0, caller |-> caller, ret |-> "none", cause |-> "none",
     cleared |-> -1, cancelled |-> -1]

\* the catch block of printBraille, and the thunk's rejection after it
PrintFailed(j, cause) ==
    /\ printQueue' = [printQueue EXCEPT ![j].status = "error"]
    /\ calls' = [calls EXCEPT ![j].pc = "returned", ![j].ret = "failure",
                              ![j].cause = cause]
    /\ slice' = IF calls[j].caller = "thunk"
                THEN [slice EXCEPT !.status = "error"] ELSE slice

\* printBraille up to its first await: the guard, the new job, printStarted
\* and the first write (a data chunk, or the print command for no cells)
PrintBegin(caller, n, seed) ==
    /\ connectedDevice # NoDevice
    /\ caller = "screen" => slice.connected
    /\ LET j == Len(printQueue) + 1
           jobId == now
           cells == Payload(n, seed)
       IN  /\ printQueue' = Append(printQueue,
                  [id |-> jobId, n |-> n, seed |-> seed,
                   status |-> "printing", progress |-> 0])
           /\ events' = Append(events, Ev("printStarted", j, jobId, 0, NoDevice))
           /\ IF MoreChunks(0, n)
              THEN /\ writes' = Append(writes, Wr(j, "data",
                          encodePrintData(ChunkAt(cells, 0)), connectedDevice))
                   /\ calls' = Append(calls, NewFrame("write", caller))
              ELSE /\ writes' = Append(writes, Wr(j, "command",
                          <<PrintCommand>>, connectedDevice))
                   /\ calls' = Append(calls, NewFrame("command", caller))
           /\ slice' = IF caller = "thunk"
                       THEN [slice EXCEPT !.currentJob = jobId,
                                          !.status = "printing"]
                       ELSE slice
    /\ UNCHANGED <<connectedDevice, discoveredDevices, customConnected, now,
                   dpc, conn>>
    /\ UNCHANGED codecVars
    /\ UNCHANGED restVars
    /\ UNCHANGED poll

\* the awaited write of a data chunk settles
WriteDone(j, ok) ==
    /\ j \in DOMAIN calls
    /\ calls[j].pc = "write"
    /\ IF ok
       THEN LET job == printQueue[j]
                i == calls[j].i
                chunk == ChunkAt(BrailleData(job), i)
                progress == RoundPercent(i + Len(chunk), job.n)
            IN  /\ printQueue' = [printQueue EXCEPT ![j].progress = progress]
                /\ events' = Append(events,
                       Ev("printProgress", j, job.id, progress, NoDevice))
                /\ calls' = [calls EXCEPT ![j].pc = "delay"]
                /\ UNCHANGED slice
       ELSE /\ PrintFailed(j, "data")
            /\ UNCHANGED events
    /\ UNCHANGED <<connectedDevice, discoveredDevices, customConnected, writes,
                   now, dpc, conn>>
    /\ UNCHANGED codecVars
    /\ UNCHANGED restVars
    /\ UNCHANGED poll

\* delay(50) is over: the next chunk, or after the last one the print command;
\* this._connectedDevice.id throws when the device was cleared meanwhile
DelayDone(j) ==
    /\ j \in DOMAIN calls
    /\ calls[j].pc = "delay"
    /\ LET job == printQueue[j]
           i == calls[j].i + chunkSize
       IN  IF connectedDevice = NoDevice
           THEN /\ PrintFailed(j, "device")
                /\ UNCHANGED writes
           ELSE /\ IF MoreChunks(i, job.n)
                   THEN /\ writes' = Append(writes, Wr(j, "data",
                               encodePrintData(ChunkAt(BrailleData(job), i)),
                               connectedDevice))
                        /\ calls' = [calls EXCEPT ![j].pc = "write", ![j].i = i]
                   ELSE /\ writes' = Append(writes, Wr(j, "command",
                               <<PrintCommand>>, connectedDevice))
                        /\ calls' = [calls EXCEPT ![j].pc = "command", ![j].i = i]
                /\ UNCHANGED <<printQueue, slice>>
    /\ UNCHANGED <<connectedDevice, discoveredDevices, customConnected, events,
                   now, dpc, conn>>
    /\ UNCHANGED codecVars
    /\ UNCHANGED restVars
    /\ UNCHANGED poll

\* the awaited write of the print command settles
CommandDone(j, ok) ==
    /\ j \in DOMAIN calls
    /\ calls[j].pc = "command"
    /\ IF ok
       THEN /\ printQueue' = [printQueue EXCEPT ![j].status = "completed",
                                                 ![j].progress = 100]
            /\ events' = Append(events,
                   Ev("printCompleted", j, printQueue[j].id, 0, NoDevice))
            /\ calls' = [calls EXCEPT ![j].pc = "returned", ![j].ret = "success"]
            \* jobComplete
            /\ slice' = IF calls[j].caller = "thunk"
                           /\ slice.currentJob = printQueue[j].id
                        THEN [slice EXCEPT !.currentJob = NoJob, !.status = "idle"]
                        ELSE slice
       ELSE /\ PrintFailed(j, "command")
            /\ UNCHANGED events
    /\ UNCHANGED <<connectedDevice, discoveredDevices, customConnected, writes,
                   now, dpc, conn>>
    /\ UNCHANGED codecVars
    /\ UNCHANGED restVars
    /\ UNCHANGED poll

Tick ==
    /\ now < MaxClock
    /\ now' = now + 1
    /\ UNCHANGED <<connectedDevice, discoveredDevices, customConnected,
                   printQueue, calls, events, writes, dpc, conn, slice>>
    /\ UNCHANGED codecVars
    /\ UNCHANGED restVars
    /\ UNCHANGED poll

(***************************************************************************)
(* BLEDeviceService.disconnect / connect, with their thunks                *)
(***************************************************************************)
\* disconnect() up to its await: the guard, then the teardown call, which in
\* CustomBLEService.disconnect clears the connection layer's device at once
DisconnectBegin ==
    /\ dpc = "idle"
    /\ connectedDevice # NoDevice
    /\ IF customConnected # NoDevice
       THEN /\ discoveredDevices' =
                  [discoveredDevices EXCEPT ![customConnected] = FALSE]
            /\ customConnected' = NoDevice
            /\ events' = Append(events,
                   Ev("deviceDisconnected", NoJob, 0, 0, customConnected))
       ELSE UNCHANGED <<discoveredDevices, customConnected, events>>
    /\ dpc' = "teardown"
    /\ UNCHANGED <<connectedDevice, printQueue, calls, writes, now, conn, slice>>
    /\ UNCHANGED codecVars
    /\ UNCHANGED restVars
    /\ UNCHANGED poll

\* the awaited teardown call settles: resolved clears _connectedDevice and
\* emits disconnected, rejected goes to the catch block; either way the
\* disconnectDevice thunk is fulfilled
DisconnectDone(resolved) ==
    /\ dpc = "teardown"
    /\ IF resolved /\ connectedDevice # NoDevice
       THEN /\ connectedDevice' = NoDevice
            /\ events' = Append(events,
                   Ev("disconnected", NoJob, 0, 0, connectedDevice))
            /\ calls' = [j \in DOMAIN calls |->
                   IF calls[j].pc \in {"write", "delay"} /\ calls[j].cleared < 0
                   THEN [calls[j] EXCEPT !.cleared = Len(writes)]
                   ELSE calls[j]]
       ELSE UNCHANGED <<connectedDevice, events, calls>>
    /\ dpc' = "idle"
    /\ slice' = [connected |-> FALSE, currentJob |-> NoJob, status |-> "idle"]
    /\ UNCHANGED <<discoveredDevices, customConnected, printQueue,
                   writes, now, conn>>
    /\ UNCHANGED codecVars
    /\ UNCHANGED restVars
    /\ UNCHANGED poll

\* disconnect() with nothing connected returns at the guard; the thunk is
\* fulfilled all the same
DisconnectNothing ==
    /\ dpc = "idle"
    /\ connectedDevice = NoDevice
    /\ slice' = [connected |-> FALSE, currentJob |-> NoJob, status |-> "idle"]
    /\ UNCHANGED <<connectedDevice, discoveredDevices, customConnected,
                   printQueue, calls, events, writes, now, dpc, conn>>
    /\ UNCHANGED codecVars
    /\ UNCHANGED restVars
    /\ UNCHANGED poll

ConnectsStarted ==
    Cardinality({k \in DOMAIN events : events[k].event = "deviceConnected"})
    + (IF conn.pc = "connecting" THEN 1 ELSE 0)

\* this.discoveredDevices.set(id, device) for each id of ids
MapSet(devices, ids, connected) ==
    [d \in DOMAIN devices \cup ids |->
        IF d \in ids THEN connected ELSE devices[d]]

\* connect(deviceId) up to the await in connectToDevice, for a discovered id
ConnectBegin(d) ==
    /\ conn.pc = "idle"
    /\ d \in DOMAIN discoveredDevices
    /\ ConnectsStarted < MaxConnects
    /\ conn' = [pc |-> "connecting", dev |-> d]
    /\ UNCHANGED <<connectedDevice, discoveredDevices, customConnected,
                   printQueue, calls, events, writes, now, dpc, slice>>
    /\ UNCHANGED codecVars
    /\ UNCHANGED restVars
    /\ UNCHANGED poll

\* the connection is made: connectToDevice marks the device, connect() sets
\* _connectedDevice and emits connected; the thunk goes on to getDeviceStatus
ConnectDone ==
    /\ conn.pc = "connecting"
    /\ discoveredDevices' = MapSet(discoveredDevices, {conn.dev}, TRUE)
    /\ customConnected' = conn.dev
    /\ connectedDevice' = conn.dev
    /\ events' = events \o
           << Ev("deviceConnected", NoJob, 0, 0, conn.dev),
              Ev("connected", NoJob, 0, 0, conn.dev) >>
    /\ conn' = [conn EXCEPT !.pc = "status"]
    /\ UNCHANGED <<printQueue, calls, writes, now, dpc, slice>>
    /\ UNCHANGED codecVars
    /\ UNCHANGED restVars
    /\ UNCHANGED poll

\* getDeviceStatus returned: connectToDevice.fulfilled
ConnectFulfilled ==
    /\ conn.pc = "status"
    /\ slice' = [slice EXCEPT !.connected = TRUE, !.status = "ready"]
    /\ conn' = [pc |-> "idle", dev |-> NoDevice]
    /\ UNCHANGED <<connectedDevice, discoveredDevices, customConnected,
                   printQueue, calls, events, writes, now, dpc>>
    /\ UNCHANGED codecVars
    /\ UNCHANGED restVars
    /\ UNCHANGED poll

(***************************************************************************)
(* Specifications of the device side.  Both start after a scan found the   *)
(* devices and connect("BRAILLE_001") was fulfilled.                       *)
(***************************************************************************)
CodecIdle ==
    /\ text = <<>>
    /\ translation = NoTranslation
    /\ decoded = <<>>
    /\ cpc = "idle"

ConnectedInit ==
    /\ CodecIdle
    /\ RestIdle
    /\ connectedDevice = "BRAILLE_001"
    /\ discoveredDevices = [d \in Devices |-> d = "BRAILLE_001"]
    /\ customConnected = "BRAILLE_001"
    /\ printQueue = <<>>
    /\ calls = <<>>
    /\ events = <<>>
    /\ writes = <<>>
    /\ now = 1
    /\ dpc = "idle"
    /\ conn = [pc |-> "idle", dev |-> NoDevice]
    /\ slice = [connected |-> TRUE, currentJob |-> NoJob, status |-> "ready"]
    /\ poll = PollIdle

\* one job, of any length up to MaxCells, on a link that stays up
PrintStart ==
    \E caller \in Callers, n \in 0..MaxCells, seed \in Seeds :
        Len(printQueue) < 1 /\ PrintBegin(caller, n, seed)

WriteSettles == \E j \in DOMAIN calls, ok \in BOOLEAN : WriteDone(j, ok)

DelayEnds == \E j \in DOMAIN calls : DelayDone(j)

CommandSettles == \E j \in DOMAIN calls, ok \in BOOLEAN : CommandDone(j, ok)

TeardownSettles == \E resolved \in BOOLEAN : DisconnectDone(resolved)

ConnectStart == \E d \in Devices : ConnectBegin(d)

PrintNext == PrintStart \/ WriteSettles \/ DelayEnds \/ CommandSettles

PrintSpec == ConnectedInit /\ [][PrintNext]_vars

\* one job of up to MaxCellsLink cells, while the device may be disconnected
\* and connected again
\* printBrailleText with no device connected: startPrintJob is dispatched,
\* printBraille returns { success: false } at its guard, the thunk throws and
\* printBrailleText.rejected sets the error status
PrintNoDevice ==
    /\ connectedDevice = NoDevice
    /\ slice' = [slice EXCEPT !.currentJob = now, !.status = "error"]
    /\ UNCHANGED <<connectedDevice, discoveredDevices, customConnected,
                   printQueue, calls, events, writes, now, dpc, conn>>
    /\ UNCHANGED codecVars
    /\ UNCHANGED restVars
    /\ UNCHANGED poll

LinkStart ==
    \E caller \in Callers, n \in 0..MaxCellsLink, seed \in Seeds :
        Len(printQueue) < 1 /\ PrintBegin(caller, n, seed)

LinkNext ==
    \/ LinkStart \/ WriteSettles \/ DelayEnds \/ CommandSettles
    \/ DisconnectBegin \/ TeardownSettles \/ DisconnectNothing
    \/ ConnectStart \/ ConnectDone \/ ConnectFulfilled \/ PrintNoDevice

LinkSpec == ConnectedInit /\ [][LinkNext]_vars

\* up to MaxJobs printBraille calls in flight together, on a ticking clock
ConcStart ==
    \E caller \in Callers, n \in 0..MaxCellsConc :
        Len(printQueue) < MaxJobs /\ PrintBegin(caller, n, 0)

ConcNext == ConcStart \/ WriteSettles \/ DelayEnds \/ CommandSettles \/ Tick

ConcSpec == ConnectedInit /\ [][ConcNext]_vars

(***************************************************************************)
(* History of one job, read from the logs                                  *)
(***************************************************************************)
JobEvents(j) == SelectSeq(events, LAMBDA e : e.job = j)
ProgressEvents(j) == SelectSeq(events,
                         LAMBDA e : e.job = j /\ e.event = "printProgress")
JobWrites(j) == SelectSeq(writes, LAMBDA w : w.job = j)
DataWrites(j) == SelectSeq(writes, LAMBDA w : w.job = j /\ w.kind = "data")
CommandWrites(j) == SelectSeq(writes,
                        LAMBDA w : w.job = j /\ w.kind = "command")

RECURSIVE Concat(_, _)
Concat(ws, k) == IF k > Len(ws) THEN <<>> ELSE ws[k].data \o Concat(ws, k + 1)

RECURSIVE SumSet(_)
SumSet(S) == IF S = {} THEN 0
             ELSE LET x == CHOOSE y \in S : TRUE IN x + SumSet(S \ {x})

\* the dot mask of a cell: bit (dot - 1) set for each raised dot
DotMask(dots) == SumSet({Pow2(dots[k] - 1) : k \in DOMAIN dots})

CeilDiv(a, b) == (a + b - 1) \div b

Completed(j) == printQueue[j].status = "completed"

(***************************************************************************)
(* C3  Chunking: a fully successful job of n cells issues ceil(n/20) data  *)
(* writes, each but the last of exactly 20 bytes, the last of 1..20 bytes, *)
(* and the bytes written are, in order, the dot masks of the payload cells.*)
(***************************************************************************)
C3_Chunking ==
    \A j \in DOMAIN printQueue :
        Completed(j) =>
            LET dw == DataWrites(j)
                n == printQueue[j].n
                cells == BrailleData(printQueue[j])
            IN  /\ Len(dw) = CeilDiv(n, chunkSize)
                /\ \A k \in 1..(Len(dw) - 1) : Len(dw[k].data) = chunkSize
                /\ Len(dw) > 0 =>
                       /\ 1 <= Len(dw[Len(dw)].data)
                       /\ Len(dw[Len(dw)].data) <= chunkSize
                /\ Concat(dw, 1) = [k \in 1..n |-> DotMask(cells[k])]

\* a completed job of three chunks, the last one short
C3_Witness ==
    \E j \in DOMAIN printQueue :
        /\ Completed(j)
        /\ printQueue[j].n = 2 * chunkSize + 1
        /\ Len(DataWrites(j)) = 3

(***************************************************************************)
(* C4  Progress of a fully successful job, of any payload length including *)
(* the empty one: the printProgress values never decrease, the last one is *)
(* exactly 100, and it is the job's event right before printCompleted.     *)
(***************************************************************************)
C4_ProgressEndsAt100 ==
    \A j \in DOMAIN printQueue :
        Completed(j) =>
            LET pe == ProgressEvents(j)
                je == JobEvents(j)
            IN  /\ \A k \in 1..(Len(pe) - 1) : pe[k].progress <= pe[k + 1].progress
                /\ Len(pe) > 0
                /\ pe[Len(pe)].progress = 100
                /\ Len(je) >= 2
                /\ je[Len(je)].event = "printCompleted"
                /\ je[Len(je) - 1].event = "printProgress"
                /\ je[Len(je) - 1].progress = 100

(***************************************************************************)
(* C5  Mid-transfer failure: when a data-chunk write of a job fails, the   *)
(* job ends in 'error', printBraille returns success = false, no           *)
(* printProgress of 100 and no printCompleted was emitted for the job, and *)
(* no write follows the failed one.                                        *)
(***************************************************************************)
C5_MidTransferFailure ==
    \A j \in DOMAIN calls :
        calls[j].cause = "data" =>
            /\ printQueue[j].status = "error"
            /\ calls[j].ret = "failure"
            /\ \A k \in DOMAIN events :
                   events[k].job = j =>
                       /\ events[k].event # "printCompleted"
                       /\ ~(events[k].event = "printProgress"
                            /\ events[k].progress = 100)
            /\ Len(JobWrites(j)) = (calls[j].i \div chunkSize) + 1

(***************************************************************************)
(* C6  Every job that emitted printStarted and has ended has emitted       *)
(* exactly one terminal event, printCompleted or an error event with the   *)
(* job id, and that event is the job's last.                               *)
(***************************************************************************)
IsTerminalEvent(e) == e.event \in {"printCompleted", "printError", "error"}

C6_OneTerminalEvent ==
    \A j \in DOMAIN calls :
        calls[j].pc = "returned" =>
            LET je == JobEvents(j)
            IN  /\ Cardinality({k \in DOMAIN je : IsTerminalEvent(je[k])}) = 1
                /\ IsTerminalEvent(je[Len(je)])

(***************************************************************************)
(* C7  At most one print job is in status 'printing' at any time.          *)
(***************************************************************************)
C7_OnePrintingJob ==
    Cardinality({j \in DOMAIN printQueue :
                     printQueue[j].status = "printing"}) <= 1

(***************************************************************************)
(* C8  Within one job the writes are totally ordered: a chunk is written   *)
(* only after the write before it settled and its printProgress was        *)
(* emitted; the print command is written at most once, after every data    *)
(* chunk was written successfully, and exactly once for a completed job;   *)
(* the job is 'completed' and printCompleted emitted only after the        *)
(* command write succeeded.                                                *)
(***************************************************************************)
C8_WritesInSequence ==
    \A j \in DOMAIN calls :
        LET jw == JobWrites(j)
            nData == Len(DataWrites(j))
            nCmd == Len(CommandWrites(j))
            nProg == Len(ProgressEvents(j))
            n == printQueue[j].n
            done == \E k \in DOMAIN events :
                        events[k].job = j /\ events[k].event = "printCompleted"
        IN  \* one write in flight at most, issued after the progress before it
            /\ nProg <= nData
            /\ nData <= nProg + 1
            /\ (nData = nProg + 1) =>
                   (calls[j].pc = "write" \/ calls[j].cause = "data")
            \* the k-th data write carries chunk k
            /\ \A k \in 1..nData :
                   DataWrites(j)[k].data =
                       encodePrintData(ChunkAt(BrailleData(printQueue[j]),
                                               (k - 1) * chunkSize))
            \* the command: once, last, after all the chunks
            /\ nCmd <= 1
            /\ nCmd = 1 =>
                   /\ jw[Len(jw)].kind = "command"
                   /\ jw[Len(jw)].data = <<PrintCommand>>
                   /\ nProg = CeilDiv(n, chunkSize)
                   /\ nData = CeilDiv(n, chunkSize)
            \* completion only after the command write succeeded
            /\ Completed(j) <=> done
            /\ Completed(j) =>
                   /\ nCmd = 1
                   /\ calls[j].pc = "returned"
                   /\ calls[j].ret = "success"

\* a completed job of several chunks
C8_Witness ==
    \E j \in DOMAIN calls :
        /\ Completed(j)
        /\ Len(DataWrites(j)) >= 3
        /\ Len(CommandWrites(j)) = 1

(***************************************************************************)
(* C9  When the connected device is cleared by disconnect() between        *)
(* printStarted and the command write of a running job, the job ends in    *)
(* 'error', never 'completed', and no chunk of it is written afterwards.   *)
(***************************************************************************)
C9_DisconnectFailsJob ==
    \A j \in DOMAIN calls :
        calls[j].cleared >= 0 =>
            /\ ~Completed(j)
            /\ calls[j].pc = "returned" => printQueue[j].status = "error"
            /\ \A k \in DOMAIN writes :
                   (writes[k].job = j /\ writes[k].kind = "data")
                       => k <= calls[j].cleared

(***************************************************************************)
(* C10 disconnect() called with a device connected ends with no connected  *)
(* device reported by the service and by the slice, also when the teardown *)
(* call fails; disconnect() with nothing connected changes no state of the *)
(* service and emits no event.                                             *)
(***************************************************************************)
C10_DisconnectAlwaysClears ==
    [][ /\ (dpc = "teardown" /\ dpc' = "idle")
            => (connectedDevice' = NoDevice /\ ~slice'.connected)
        /\ (dpc = "idle" /\ connectedDevice = NoDevice /\ dpc' = "idle"
            /\ conn' = conn /\ calls' = calls)
            => UNCHANGED <<connectedDevice, customConnected, discoveredDevices,
                           printQueue, events, writes>> ]_vars

(***************************************************************************)
(* C11 At most one device is connected at any time: at most one device     *)
(* known to the connection layer has connected = true, and when a device   *)
(* is reported connected every other device that was connected before has  *)
(* been disconnected first (its connected flag false, its disconnected     *)
(* event emitted).                                                         *)
(***************************************************************************)
\* the device the specifications of the device side start connected to
InitiallyConnected == "BRAILLE_001"

\* the link events of device d among the first k - 1 events
LinkEventsBefore(d, k) ==
    {m \in 1..(k - 1) :
        /\ events[m].deviceId = d
        /\ events[m].event \in {"deviceConnected", "deviceDisconnected"}}

\* device d was connected in the connection layer when event k was emitted
LinkedAt(d, k) ==
    LET prior == LinkEventsBefore(d, k)
    IN  IF prior = {} THEN d = InitiallyConnected
        ELSE events[CHOOSE m \in prior : \A x \in prior : x <= m].event
                 = "deviceConnected"

C11_OneConnection ==
    /\ Cardinality({d \in DOMAIN discoveredDevices : discoveredDevices[d]}) <= 1
    /\ \A k \in DOMAIN events :
           events[k].event = "deviceConnected" =>
               \A a \in Devices \ {events[k].deviceId} : ~LinkedAt(a, k)

(***************************************************************************)
(* cancelJob of the device slice, dispatched for a job that is printing    *)
(***************************************************************************)
MaxCellsCancel == 41   \* longest payload of a job that may be cancelled

\* dispatch(cancelJob(id)) with the id of job j: the reducer drops currentJob
\* when it carries that id (the queue of the slice is not used by printing)
CancelJob(j) ==
    /\ j \in DOMAIN calls
    /\ printQueue[j].status = "printing"
    /\ calls[j].cancelled < 0
    /\ slice' = IF slice.currentJob # NoJob /\ slice.currentJob = printQueue[j].id
                THEN [slice EXCEPT !.currentJob = NoJob, !.status = "ready"]
                ELSE slice
    /\ calls' = [calls EXCEPT ![j].cancelled =
                    IF calls[j].pc \in {"write", "delay"} THEN Len(writes) ELSE -1]
    /\ UNCHANGED <<connectedDevice, discoveredDevices, customConnected,
                   printQueue, events, writes, now, dpc, conn, poll>>
    /\ UNCHANGED codecVars
    /\ UNCHANGED restVars

CancelStart ==
    \E caller \in Callers, n \in 0..MaxCellsCancel, seed \in Seeds :
        Len(printQueue) < 1 /\ PrintBegin(caller, n, seed)

CancelRequested == \E j \in DOMAIN calls : CancelJob(j)

CancelNext ==
    \/ CancelStart \/ WriteSettles \/ DelayEnds \/ CommandSettles
    \/ CancelRequested

CancelSpec == ConnectedInit /\ [][CancelNext]_vars

(***************************************************************************)
(* C12 Cancellation: once cancelJob was dispatched for a printing job      *)
(* whose print command is not yet written, no further chunk and no print   *)
(* command is written for it, the chunks already written are not written   *)
(* again, and the job ends in 'error' with the reason Cancelled (or, when   *)
(* the write in flight at the cancellation fails, with that failure).      *)
(***************************************************************************)
C12_CancelStopsJob ==
    \A j \in DOMAIN calls :
        calls[j].cancelled >= 0 =>
            /\ \A k \in DOMAIN writes :
                   writes[k].job = j => k <= calls[j].cancelled
            /\ \A k \in DOMAIN DataWrites(j) :
                   DataWrites(j)[k].data =
                       encodePrintData(ChunkAt(BrailleData(printQueue[j]),
                                               (k - 1) * chunkSize))
            /\ ~Completed(j)
            /\ calls[j].pc = "returned" =>
                   /\ printQueue[j].status = "error"
                   /\ calls[j].cause \in {"cancelled", "data"}

(***************************************************************************)
(* A write whose promise never settles                                     *)
(***************************************************************************)
MaxCellsHang == 41     \* longest payload of a job whose write may hang

\* the native layer never answers the write in flight (data or command)
WriteHangs(j) ==
    /\ j \in DOMAIN calls
    /\ calls[j].pc \in {"write", "command"}
    /\ calls' = [calls EXCEPT ![j].pc = "hung"]
    /\ UNCHANGED <<connectedDevice, discoveredDevices, customConnected,
                   printQueue, events, writes, now, dpc, conn, slice, poll>>
    /\ UNCHANGED codecVars
    /\ UNCHANGED restVars

HangStart ==
    \E caller \in Callers, n \in 0..MaxCellsHang, seed \in Seeds :
        Len(printQueue) < 1 /\ PrintBegin(caller, n, seed)

WriteNeverSettles == \E j \in DOMAIN calls : WriteHangs(j)

HangNext ==
    \/ HangStart \/ WriteSettles \/ DelayEnds \/ CommandSettles
    \/ WriteNeverSettles

\* a write that does settle settles eventually, and every timer fires
HangSpec ==
    /\ ConnectedInit
    /\ [][HangNext]_vars
    /\ WF_vars(WriteSettles)
    /\ WF_vars(DelayEnds)
    /\ WF_vars(CommandSettles)

(***************************************************************************)
(* C13 Every print job reaches a terminal status, 'completed' or 'error',  *)
(* also when a chunk write or the command write never returns.             *)
(***************************************************************************)
C13_EveryJobEnds ==
    (Len(printQueue) >= 1)
        ~> (Len(printQueue) >= 1
            /\ printQueue[1].status \in {"completed", "error"})

(***************************************************************************)
(* BLEDeviceService.getDeviceStatus                                        *)
(***************************************************************************)
MaxPolls == 2          \* getDeviceStatus calls

DeviceBattery == 85    \* batteryLevel of _connectedDevice (mock value)

\* the status bytes a read may deliver
BatteryBytes == {0, 1, 50, 100, 255}
PaperBytes == {0, 1, 2}
ErrorBytes == 0..6
StatusReads == {<<b0, b1, b2>> : b0 \in BatteryBytes, b1 \in PaperBytes,
                                 b2 \in ErrorBytes}

\* the errors record of getErrorMessage, keys 1..5
ErrorTable == <<"Paper jam detected", "Out of paper",
                "Overheating - please wait", "Low battery",
                "Communication error">>

\* getErrorMessage(code), code <<>> for null or <<n>>
getErrorMessage(code) ==
    IF code = <<>> THEN <<>>
    ELSE IF code[1] \in DOMAIN ErrorTable THEN <<ErrorTable[code[1]]>>
    ELSE <<"Unknown error", code[1]>>

\* the object built from the bytes read: data[0] || 100, data[1] === 1,
\* data[2] || null, getErrorMessage(data[2])
ParseStatus(data) ==
    DeviceStatus(TRUE,
                 IF data[1] = 0 THEN 100 ELSE data[1],
                 data[2] = 1,
                 IF data[3] = 0 THEN <<>> ELSE <<data[3]>>,
                 getErrorMessage(<<data[3]>>))

\* the object built in the catch block: batteryLevel || 100, paper loaded
FallbackStatus ==
    DeviceStatus(TRUE,
                 IF DeviceBattery = 0 THEN 100 ELSE DeviceBattery,
                 TRUE, <<>>, <<>>)

\* getDeviceStatus() up to its await: the guard, then the read call
StatusBegin ==
    /\ poll.pc # "read"
    /\ poll.polls < MaxPolls
    /\ IF connectedDevice = NoDevice
       THEN poll' = [poll EXCEPT !.pc = "returned", !.result = NoStatus,
                                 !.read = "none", !.polls = @ + 1]
       ELSE poll' = [poll EXCEPT !.pc = "read", !.polls = @ + 1]
    /\ UNCHANGED <<connectedDevice, discoveredDevices, customConnected,
                   printQueue, calls, events, writes, now, dpc, conn, slice>>
    /\ UNCHANGED codecVars
    /\ UNCHANGED restVars

\* the awaited read settles: with bytes, or rejected into the catch block,
\* where this._connectedDevice.batteryLevel throws once the device is cleared
ReadDone(ok, data) ==
    /\ poll.pc = "read"
    /\ IF ok
       THEN poll' = [poll EXCEPT !.pc = "returned", !.data = data,
                                 !.result = ParseStatus(data), !.read = "ok",
                                 !.lastGood = <<ParseStatus(data)>>]
       ELSE IF connectedDevice = NoDevice
       THEN poll' = [poll EXCEPT !.pc = "threw", !.read = "failed"]
       ELSE poll' = [poll EXCEPT !.pc = "returned", !.result = FallbackStatus,
                                 !.read = "failed"]
    /\ UNCHANGED <<connectedDevice, discoveredDevices, customConnected,
                   printQueue, calls, events, writes, now, dpc, conn, slice>>
    /\ UNCHANGED codecVars
    /\ UNCHANGED restVars

ReadSettles == \E ok \in BOOLEAN, data \in StatusReads : ReadDone(ok, data)

StatusNext == StatusBegin \/ ReadSettles \/ DisconnectBegin \/ TeardownSettles

StatusSpec == ConnectedInit /\ [][StatusNext]_vars

(***************************************************************************)
(* C14 getDeviceStatus on a connected device whose read succeeds with the  *)
(* bytes (b0, b1, b2): batteryLevel is b0 for every b0 in 0..100, also 0;  *)
(* paperLoaded is true exactly when b1 = 1; the error is the table entry   *)
(* of b2 for 1..5 and the unknown error with that code otherwise.          *)
(***************************************************************************)
ClaimedError(b2) ==
    CASE b2 = 1 -> <<"Paper jam detected">>
      [] b2 = 2 -> <<"Out of paper">>
      [] b2 = 3 -> <<"Overheating - please wait">>
      [] b2 = 4 -> <<"Low battery">>
      [] b2 = 5 -> <<"Communication error">>
      [] OTHER  -> <<"Unknown error", b2>>

C14_StatusFromBytes ==
    (poll.pc = "returned" /\ poll.read = "ok") =>
        /\ poll.result.connected
        /\ poll.data[1] \in 0..100 => poll.result.batteryLevel = poll.data[1]
        /\ poll.result.paperLoaded <=> (poll.data[2] = 1)
        /\ poll.result.errorMessage = ClaimedError(poll.data[3])

(***************************************************************************)
(* C15 When the read fails on a connected device getDeviceStatus does not  *)
(* throw, and it returns the status of the most recent successful read     *)
(* (battery level, paper-loaded flag, error code), marked as stale.        *)
(***************************************************************************)
C15_StaleStatus ==
    poll.read = "failed" =>
        /\ poll.pc # "threw"
        /\ (poll.pc = "returned" /\ poll.lastGood # <<>>) =>
               /\ poll.result.batteryLevel = poll.lastGood[1].batteryLevel
               /\ poll.result.paperLoaded = poll.lastGood[1].paperLoaded
               /\ poll.result.errorCode = poll.lastGood[1].errorCode
               /\ "stale" \in DOMAIN poll.result
               /\ poll.result.stale

(***************************************************************************)
(* C16 The printProgress values of one job are strictly increasing, for    *)
(* every payload length: each value is greater than the one before it.     *)
(***************************************************************************)
C16_ProgressStrictlyIncreasing ==
    \A j \in DOMAIN printQueue :
        LET pe == ProgressEvents(j)
        IN  \A k \in 1..(Len(pe) - 1) : pe[k].progress < pe[k + 1].progress

(***************************************************************************)
(* C17 Bit-exact cell bytes: the dot pattern of 'A' is {1} and             *)
(* encodePrintData encodes it as 0b000001 (1); the dot pattern of 'Z' is   *)
(* {1,3,5,6} and encodePrintData encodes it as 0b110101 (53): bit          *)
(* (dot - 1) is set for every raised dot.                                  *)
(***************************************************************************)
\* the cell of the character itself is the last one of the translation
LastCellIs(char, dots, byte) ==
    LET n == Len(translation.cells)
    IN  /\ n > 0
        /\ translation.cells[n].character = char
        /\ translation.cells[n].dots = dots
        /\ Len(translation.dotSequence) = n
        /\ encodePrintData(translation.dotSequence)[n] = byte

C17_BitExactCells ==
    cpc # "start" =>
        /\ text = <<"A">> => LastCellIs("A", <<1>>, 1)
        /\ text = <<"Z">> => LastCellIs("Z", <<1, 3, 5, 6>>, 53)

\* the translation of "Z", its cell encoded as 53
C17_Witness ==
    /\ cpc = "encoded"
    /\ text = <<"Z">>
    /\ LastCellIs("Z", <<1, 3, 5, 6>>, 53)

\* as stated: the byte of 'Z' is 0b101101 (45)
C17_BitExactAsStated ==
    cpc # "start" =>
        /\ text = <<"A">> => LastCellIs("A", <<1>>, 1)
        /\ text = <<"Z">> => LastCellIs("Z", <<1, 3, 5, 6>>, 45)

(***************************************************************************)
(* C18 The print command byte that printBraille sends after the last chunk *)
(* is 0x01, written alone on the command characteristic; it lies inside    *)
(* the 6-bit range, where it equals the byte of the cell with dot 1 only,  *)
(* and every byte written on the print characteristic is in 0..63.         *)
(***************************************************************************)
RECURSIVE SortedDots(_)
SortedDots(S) ==
    IF S = {} THEN <<>>
    ELSE LET m == CHOOSE x \in S : \A y \in S : x <= y
         IN  <<m>> \o SortedDots(S \ {m})

\* every byte encodePrintData produces for a cell with dots among 1..6
CellBytes == {encodePrintData(<<SortedDots(S)>>)[1] : S \in SUBSET (1..6)}

C18_CommandByteOnItsOwnCharacteristic ==
    \A k \in DOMAIN writes :
        /\ writes[k].kind = "command" =>
               /\ writes[k].data = <<1>>
               /\ writes[k].data[1] = encodePrintData(<<SortedDots({1})>>)[1]
        /\ writes[k].kind = "data" =>
               \A b \in DOMAIN writes[k].data : writes[k].data[b] \in 0..63

\* a job that wrote the byte 1 as cell data and then the print command
C18_Witness ==
    \E j \in DOMAIN printQueue :
        /\ Completed(j)
        /\ Len(CommandWrites(j)) = 1
        /\ \E k \in DOMAIN DataWrites(j) :
               \E b \in DOMAIN DataWrites(j)[k].data :
                   DataWrites(j)[k].data[b] = PrintCommand

\* as stated: the command byte differs from every byte of a cell
C18_CommandByteReserved ==
    \A k \in DOMAIN writes :
        writes[k].kind = "command" =>
            \A b \in DOMAIN writes[k].data : writes[k].data[b] \notin CellBytes

(***************************************************************************)
(* C19 Encoding "A1B2" with textToBraille inserts exactly two numeral      *)
(* indicator cells, one right before the cell of '1' and one right before  *)
(* the cell of '2': the letter B ends numeral mode.                        *)
(***************************************************************************)
A1B2 == <<"A", "1", "B", "2">>

NumberCells(cells) == {i \in DOMAIN cells : cells[i].character = "number"}

C19_A1B2TwoIndicators ==
    (cpc # "start" /\ text = A1B2) =>
        /\ Cardinality(NumberCells(translation.cells)) = 2
        /\ IndicatorBefore(translation.cells, CellIndexOf(text, 2))
        /\ IndicatorBefore(translation.cells, CellIndexOf(text, 4))

\* "A1B2" encoded: capital A number 1 capital B number 2
C19_Witness ==
    /\ cpc = "encoded"
    /\ text = A1B2
    /\ Len(translation.cells) = 8
    /\ NumberCells(translation.cells) = {3, 7}

\* as stated: one indicator, before '1', none before '2'
C19_A1B2OneIndicator ==
    (cpc # "start" /\ text = A1B2) =>
        /\ Cardinality(NumberCells(translation.cells)) = 1
        /\ IndicatorBefore(translation.cells, CellIndexOf(text, 2))
        /\ ~IndicatorBefore(translation.cells, CellIndexOf(text, 4))

(***************************************************************************)
(* C20 For every input text textToBraille returns at least as many cells   *)
(* as the text has mapped characters (unmapped characters get no cell),    *)
(* and cells, dotSequence and the glyphs of brailleUnicode have the same   *)
(* length and correspond position by position.                             *)
(***************************************************************************)
MappedCount(txt) ==
    Cardinality({i \in DOMAIN txt : HasPattern(toLowerCase(txt[i]))})

Aligned(t) ==
    /\ Len(t.dotSequence) = Len(t.cells)
    /\ Len(t.brailleUnicode) = Len(t.cells)
    /\ \A i \in DOMAIN t.cells :
           /\ t.dotSequence[i] = t.cells[i].dots
           /\ t.brailleUnicode[i] = t.cells[i].unicode

C20_CellsCoverMappedText ==
    cpc # "start" =>
        /\ Len(translation.cells) >= MappedCount(text)
        /\ Aligned(translation)

\* a text with an unmapped character, encoded to fewer cells than characters
C20_Witness ==
    /\ cpc = "encoded"
    /\ Len(translation.cells) > 0
    /\ Len(translation.cells) < Len(text)
    /\ \E i \in DOMAIN text : ~HasPattern(toLowerCase(text[i]))

\* as stated: cells.length >= text.length for every text
C20_CellsCoverText ==
    cpc # "start" =>
        /\ Len(translation.cells) >= Len(text)
        /\ Aligned(translation)

(***************************************************************************)
(* C21: where a numeral run ends for brailleToText                         *)
(***************************************************************************)
IsIndicator(glyph) ==
    glyph \in {BRAILLE_PATTERNS("capital"), BRAILLE_PATTERNS("number")}

\* the glyph is the pattern of one of the letters a..j
IsAtoJGlyph(glyph) ==
    /\ BRAILLE_TO_TEXT(glyph) # Undefined
    /\ IsAtoJ(BRAILLE_TO_TEXT(glyph))

\* positions of the glyphs that decode to a character, in order
CharGlyphs(glyphs) ==
    SelectSeq([i \in DOMAIN glyphs |-> i], LAMBDA i : ~IsIndicator(glyphs[i]))

\* a numeral indicator precedes position i with only a..j patterns in between
InNumeralRun(glyphs, i) ==
    \E p \in 1..(i - 1) :
        /\ glyphs[p] = BRAILLE_PATTERNS("number")
        /\ \A q \in (p + 1)..(i - 1) : IsAtoJGlyph(glyphs[q])

\* C21: a decoded character is a digit exactly when its glyph is an a..j
\* pattern inside a numeral run, a run being ended by the first space cell
\* and by the first cell that is not an a..j pattern; so the cells of "1ka"
\* decode back to "1ka".
C21_NumeralRunEnds ==
    cpc = "decoded" =>
        LET glyphs == translation.brailleUnicode
            at == CharGlyphs(glyphs)
        IN  /\ Len(decoded) = Len(at)
            /\ \A j \in DOMAIN at :
                  IsDigit(decoded[j]) <=>
                      (IsAtoJGlyph(glyphs[at[j]]) /\ InNumeralRun(glyphs, at[j]))
            /\ (text = <<"1", "k", "a">> => decoded = text)

(***************************************************************************)
(* C27: the dots of a cell against the dots of its glyph                   *)
(***************************************************************************)
\* C27: every cell textToBraille produces (letter, digit, indicator, space
\* or mapped punctuation mark) has as its dots exactly the raised dots of
\* its Unicode glyph.
C27_DotsMatchGlyph ==
    cpc \in {"encoded", "decoded"} =>
        \A i \in DOMAIN translation.cells :
            DotMask(translation.cells[i].dots) = translation.cells[i].unicode

(***************************************************************************)
(* C30: error code and error message of a DeviceStatus                     *)
(***************************************************************************)
\* C30: in every DeviceStatus getDeviceStatus returns (not connected, read
\* succeeded, read failed) errorMessage is null exactly when errorCode is
\* null.
C30_MessageIffCode ==
    poll.pc = "returned" =>
        (poll.result.errorMessage = <<>> <=> poll.result.errorCode = <<>>)

(***************************************************************************)
(* C23: print job ids                                                      *)
(***************************************************************************)
\* C23: any two printBraille calls that created a job gave their jobs
\* different ids, also when both calls fall into the same millisecond.
C23_JobIdsUnique ==
    \A i, j \in DOMAIN printQueue :
        i # j => printQueue[i].id # printQueue[j].id

(***************************************************************************)
(* C24: the slice after printBrailleText settled                           *)
(***************************************************************************)
\* a printBrailleText call is between its startPrintJob and its last dispatch
ThunkInFlight ==
    \E j \in DOMAIN calls : calls[j].caller = "thunk" /\ calls[j].pc # "returned"

\* C24: once printBrailleText has settled, with success or with failure
\* (the no-device failure included), the slice has no current job, so no
\* job with status 'printing' remains in it.
C24_NoJobAfterSettle ==
    ~ThunkInFlight => slice.currentJob = NoJob

(***************************************************************************)
(* BrailleTranslationService.getDotPattern / dotsToCharacter               *)
(***************************************************************************)
\* DOT_PATTERNS[char.toLowerCase()] || []
getDotPattern(char) == DOT_PATTERNS(toLowerCase(char))

\* [...dots].sort((a, b) => a - b): insertion of each element in its place
RECURSIVE SortNumbers(_)
SortNumbers(dots) ==
    IF dots = <<>> THEN <<>>
    ELSE LET rest == SortNumbers(Tail(dots))
             x == Head(dots)
         IN  SelectSeq(rest, LAMBDA y : y < x) \o <<x>>
             \o SelectSeq(rest, LAMBDA y : y >= x)

\* the first entry of Object.entries(DOT_PATTERNS) with a one-character key
\* whose sorted pattern equals the sorted input; ' ' for no dots, '?' for none
dotsToCharacter(dots) ==
    IF dots = <<>> THEN " "
    ELSE LET sortedDots == SortNumbers(dots)
             entries == SelectSeq(ObjectEntries(DotSource),
                                  LAMBDA p : IsSingleCharKey(p[1]))
             hits == {i \in DOMAIN entries :
                          SortNumbers(entries[i][2]) = sortedDots}
         IN  IF hits = {} THEN "?"
             ELSE entries[CHOOSE i \in hits : \A j \in hits : i <= j][1]

(***************************************************************************)
(* Lookup specification: the pattern array of a brailleInput event is      *)
(* drawn and handed to dotsToCharacter, as handleBrailleInput does.        *)
(***************************************************************************)
\* every order of the elements of a pattern
Orders(pattern) ==
    {f \in [DOMAIN pattern -> Range(pattern)] :
         \A i, j \in DOMAIN pattern : i # j => f[i] # f[j]}

\* the patterns of the letters in every order, the indicator patterns, and
\* arrays that are no character's pattern (a dot twice, a dot number 7)
DotInputs ==
    UNION {Orders(getDotPattern(c)) : c \in Range(LowerLetters)}
    \cup {<<>>, <<6>>, <<3>>, <<6, 5, 4, 3>>, <<1, 1>>, <<7>>, <<6, 1>>}

LookupInit ==
    /\ CodecIdle
    /\ connectedDevice = NoDevice
    /\ discoveredDevices = <<>>
    /\ customConnected = NoDevice
    /\ printQueue = <<>>
    /\ calls = <<>>
    /\ events = <<>>
    /\ writes = <<>>
    /\ now = 1
    /\ dpc = "idle"
    /\ conn = [pc |-> "idle", dev |-> NoDevice]
    /\ slice = InitialSlice
    /\ poll = PollIdle
    /\ scan = ScanIdle
    /\ offline = OfflineIdle
    /\ lookup \in {[pc |-> "start", dots |-> dots, char |-> ""] :
                       dots \in DotInputs}

\* handleBrailleInput: inputChar = brailleService.dotsToCharacter(pattern)
LookupDots ==
    /\ lookup.pc = "start"
    /\ lookup' = [lookup EXCEPT !.pc = "done",
                                !.char = dotsToCharacter(lookup.dots)]
    /\ UNCHANGED <<scan, offline>>
    /\ UNCHANGED deviceVars
    /\ UNCHANGED codecVars

LookupNext == LookupDots

LookupSpec == LookupInit /\ [][LookupNext]_vars

\* the input holds exactly the dots of the pattern, in some order
SameDots(dots, pattern) == SortNumbers(dots) = SortNumbers(pattern)

\* C22: dotsToCharacter(getDotPattern(c)) is c for every letter c of a-z,
\* whatever the order of the dots in the array, and an array that is the
\* pattern of no character gives the unknown sentinel '?'.
C22_ReverseLookup ==
    lookup.pc = "done" =>
        /\ \A c \in Range(LowerLetters) :
               SameDots(lookup.dots, getDotPattern(c)) => lookup.char = c
        /\ (lookup.dots # <<>>
            /\ \A c \in Range(LowerLetters) \cup Range(DigitKeys)
                        \cup {".", ",", "?", "!"} :
                   ~SameDots(lookup.dots, getDotPattern(c)))
           => lookup.char = "?"

(***************************************************************************)
(* Scanning: BLEDeviceService.startScan / stopScan over                    *)
(* CustomBLEService.startScan / stopScan and its two timers, with          *)
(* connect() for ids in and out of the discovered set.                     *)
(***************************************************************************)
MaxScans == 2   \* startScan calls
MaxStops == 1   \* stopScan calls made by the caller

\* the ids of fallbackDevices, in the order of the array
FallbackIds == <<"BRAILLE_001", "BRAILLE_002", "ORBIT_20", "FOCUS_40">>

\* the address of a device native discovery can report
LiveIds == {"AA:BB:CC:DD:EE:FF"}

\* the ids connect() is called with
ConnectIds == {"BRAILLE_001"} \cup LiveIds

\* faulty variant of MapClear: the entries of the scan before stay
MapClearKeeps(devices) == devices

\* this.discoveredDevices.clear()
MapClear(devices) == <<>>

\* customDevices.map(d => ({ id, name, rssi, isConnected: d.connected })):
\* name and rssi are what the device reported or what fallbackDevices holds
ScanResult(devices) ==
    {[id |-> d, isConnected |-> devices[d]] : d \in DOMAIN devices}

Timer(kind, k) == [kind |-> kind, of |-> k]

\* timers run in the order of their due times: the 2 s timer of a call before
\* its 10 s timer, and a timer before the same timer of a later call
CanFire(i) ==
    /\ \A j \in 1..(i - 1) : scan.timers[j].kind # scan.timers[i].kind
    /\ scan.timers[i].kind = "stop" =>
           \A j \in 1..(i - 1) : scan.timers[j].of # scan.timers[i].of

Without(seq, i) == [j \in 1..(Len(seq) - 1) |-> IF j < i THEN seq[j] ELSE seq[j + 1]]

DiscoveredEvents(ids) ==
    [i \in DOMAIN ids |-> Ev("deviceDiscovered", NoJob, 0, 0, ids[i])]

\* BLEDeviceService.startScan(duration) on an initialised service, up to the
\* await of initialize() inside CustomBLEService.startScan
ScanBegin ==
    /\ Len(scan.frames) < MaxScans
    /\ scan' = [scan EXCEPT !.frames = Append(@, [pc |-> "init", devices |-> {}])]
    /\ UNCHANGED <<lookup, offline>>
    /\ UNCHANGED deviceVars
    /\ UNCHANGED codecVars

\* initialize() settled: on failure the result is returned and startScan of
\* BLEDeviceService throws; on success scanning is set, the discovered set
\* cleared and native discovery awaited
ScanInitDone(k, ok) ==
    /\ k \in DOMAIN scan.frames
    /\ scan.frames[k].pc = "init"
    /\ IF ok
       THEN /\ scan' = [scan EXCEPT !.scanning = TRUE,
                                    !.frames[k].pc = "discovery"]
            /\ discoveredDevices' = MapClear(discoveredDevices)
       ELSE /\ scan' = [scan EXCEPT !.frames[k].pc = "failed"]
            /\ UNCHANGED discoveredDevices
    /\ UNCHANGED <<connectedDevice, customConnected, printQueue, calls, events,
                   writes, now, dpc, conn, slice, poll>>
    /\ UNCHANGED <<lookup, offline>>
    /\ UNCHANGED codecVars

\* native discovery settled (with the devices found, or none when it threw or
\* the platform has no native module): the devices are added, the 2 s and
\* 10 s timers set, success is returned and scanStarted emitted
DiscoveryDone(k, found) ==
    /\ k \in DOMAIN scan.frames
    /\ scan.frames[k].pc = "discovery"
    /\ discoveredDevices' = MapSet(discoveredDevices, found, FALSE)
    /\ events' = events
           \o [i \in 1..Cardinality(found) |->
                   Ev("deviceDiscovered", NoJob, 0, 0, CHOOSE d \in found : TRUE)]
           \o <<Ev("scanStarted", NoJob, 0, 0, NoDevice)>>
    /\ scan' = [scan EXCEPT
           !.frames[k].pc = "wait",
           !.timers = @ \o <<Timer("fallback", k), Timer("stop", k)>>,
           !.live = @ \cup found,
           !.active = IF scan.scanning THEN @ \cup {k} ELSE @]
    /\ UNCHANGED <<connectedDevice, customConnected, printQueue, calls, writes,
                   now, dpc, conn, slice, poll>>
    /\ UNCHANGED <<lookup, offline>>
    /\ UNCHANGED codecVars

\* the 2 s timer of call k runs: with an empty discovered set the fallback
\* devices are added and announced
FallbackTimer(i) ==
    /\ i \in DOMAIN scan.timers
    /\ scan.timers[i].kind = "fallback"
    /\ CanFire(i)
    /\ IF DOMAIN discoveredDevices = {}
       THEN /\ discoveredDevices' =
                  MapSet(discoveredDevices, Range(FallbackIds), FALSE)
            /\ events' = events \o DiscoveredEvents(FallbackIds)
       ELSE UNCHANGED <<discoveredDevices, events>>
    /\ scan' = [scan EXCEPT !.timers = Without(@, i)]
    /\ UNCHANGED <<connectedDevice, customConnected, printQueue, calls, writes,
                   now, dpc, conn, slice, poll>>
    /\ UNCHANGED <<lookup, offline>>
    /\ UNCHANGED codecVars

\* the 10 s timer of call k runs: this.stopScan()
StopTimer(i) ==
    /\ i \in DOMAIN scan.timers
    /\ scan.timers[i].kind = "stop"
    /\ CanFire(i)
    /\ events' = Append(events, Ev("scanStopped", NoJob, 0, 0, NoDevice))
    /\ scan' = [scan EXCEPT !.scanning = FALSE,
                            !.timers = Without(@, i),
                            !.active = @ \ {scan.timers[i].of}]
    /\ UNCHANGED <<connectedDevice, discoveredDevices, customConnected,
                   printQueue, calls, writes, now, dpc, conn, slice, poll>>
    /\ UNCHANGED <<lookup, offline>>
    /\ UNCHANGED codecVars

\* the duration of call k is over: the discovered devices are mapped,
\* customBLEService.stopScan() called, scanStopped emitted, the list returned
ScanWaitDone(k) ==
    /\ k \in DOMAIN scan.frames
    /\ scan.frames[k].pc = "wait"
    /\ events' = events \o << Ev("scanStopped", NoJob, 0, 0, NoDevice),
                              Ev("scanStopped", NoJob, 0, 0, NoDevice) >>
    /\ scan' = [scan EXCEPT !.scanning = FALSE,
                            !.frames[k].pc = "returned",
                            !.frames[k].devices = ScanResult(discoveredDevices),
                            !.active = {}]
    /\ UNCHANGED <<connectedDevice, discoveredDevices, customConnected,
                   printQueue, calls, writes, now, dpc, conn, slice, poll>>
    /\ UNCHANGED <<lookup, offline>>
    /\ UNCHANGED codecVars

\* BLEDeviceService.stopScan() called by the application
StopScan ==
    /\ scan.stops < MaxStops
    /\ events' = events \o << Ev("scanStopped", NoJob, 0, 0, NoDevice),
                              Ev("scanStopped", NoJob, 0, 0, NoDevice) >>
    /\ scan' = [scan EXCEPT !.scanning = FALSE, !.active = {},
                            !.stops = @ + 1]
    /\ UNCHANGED <<connectedDevice, discoveredDevices, customConnected,
                   printQueue, calls, writes, now, dpc, conn, slice, poll>>
    /\ UNCHANGED <<lookup, offline>>
    /\ UNCHANGED codecVars

\* connect(deviceId) for an id the discovered set does not hold:
\* connectToDevice returns 'Device not found. Please scan again.', connect()
\* returns that result and the thunk is rejected
ConnectNotFound(d) ==
    /\ d \notin DOMAIN discoveredDevices
    /\ scan' = [scan EXCEPT !.refused = @ \cup {d}]
    /\ UNCHANGED <<lookup, offline>>
    /\ UNCHANGED deviceVars
    /\ UNCHANGED codecVars

ScanInitSettles == \E k \in 1..MaxScans, ok \in BOOLEAN : ScanInitDone(k, ok)

DiscoverySettles ==
    \E k \in 1..MaxScans, found \in SUBSET LiveIds : DiscoveryDone(k, found)

TimerRuns == \E i \in 1..(2 * MaxScans) : FallbackTimer(i) \/ StopTimer(i)

ScanWaitEnds == \E k \in 1..MaxScans : ScanWaitDone(k)

ScanConnect == \E d \in ConnectIds : ConnectBegin(d) \/ ConnectNotFound(d)

ScanInit == CodecIdle /\ DeviceIdle

ScanNext ==
    \/ ScanBegin \/ ScanInitSettles \/ DiscoverySettles \/ TimerRuns
    \/ ScanWaitEnds \/ StopScan \/ ScanConnect \/ ConnectDone \/ ConnectFulfilled

ScanSpec == ScanInit /\ [][ScanNext]_vars

(***************************************************************************)
(* C25: live and fallback devices in the list a scan returns               *)
(***************************************************************************)
\* where a returned device came from: native discovery or fallbackDevices
SourceOf(id) == IF id \in scan.live THEN "live" ELSE "fallback"

\* C25: every device in the list a scan returned carries a source marker,
\* and the marker of an injected fallback profile differs from the marker
\* of a live-discovered device.
C25_SourceMarker ==
    \A k \in DOMAIN scan.frames :
        scan.frames[k].pc = "returned" =>
            \A device \in scan.frames[k].devices :
                /\ "source" \in DOMAIN device
                /\ device.source = SourceOf(device.id)

(***************************************************************************)
(* C26: connect() and the discovered set                                   *)
(***************************************************************************)
\* a startScan call got past initialize(): the scan starts
ScanStarts ==
    \E k \in DOMAIN scan.frames :
        scan.frames[k].pc = "init" /\ scan'.frames[k].pc = "discovery"

AddedByScan ==
    {d \in DOMAIN discoveredDevices' \ DOMAIN discoveredDevices :
         ~discoveredDevices'[d]}

\* C29: once startScan returned success, isScanning() stays true until a
\* stopScan call or the 10 s timer of that same call, and devices (the
\* fallback profiles of the 2 s timer included) are added to the discovered
\* set only while isScanning() is true, for any sequence of startScan and
\* stopScan calls.
C29_TimersOfOwnScanOnly ==
    [][/\ scan'.active # {} => scan'.scanning
       /\ AddedByScan # {} => scan.scanning]_vars

(***************************************************************************)
(* OfflineSyncService: queueAction, handleNetworkChange, syncOfflineQueue  *)
(* over the queue stored under STORAGE_KEYS.OFFLINE_QUEUE.                 *)
(***************************************************************************)
MaxQueued == 2   \* queueAction calls
MaxSyncs == 2    \* syncOfflineQueue runs that pass the guard

MaxRetries == 5  \* item.retryCount < 5

QueueItem(id, retryCount) == [id |-> id, retryCount |-> retryCount]

Ids(queue) == {queue[i].id : i \in DOMAIN queue}

\* the service with a queue left by earlier calls: nothing, or one item that
\* has failed four times
OfflineStart ==
    {[OfflineIdle EXCEPT !.stored = stored, !.queued = Ids(stored)] :
         stored \in {<<>>, <<QueueItem(0, MaxRetries - 1)>>}}

\* queueAction up to the await in getOfflineQueue: the item is built (its id
\* from Date.now() and Math.random(), here the number of the call)
QueueBegin ==
    /\ Len(offline.adds) < MaxQueued
    /\ offline' = [offline EXCEPT !.adds =
           Append(@, [pc |-> "read", id |-> Len(offline.adds) + 1,
                      queue |-> <<>>])]
    /\ UNCHANGED <<scan, lookup>>
    /\ UNCHANGED deviceVars
    /\ UNCHANGED codecVars

\* getItem settled: the stored queue is parsed, the item pushed and setItem
\* called with the result
QueueRead(k) ==
    /\ k \in DOMAIN offline.adds
    /\ offline.adds[k].pc = "read"
    /\ offline' = [offline EXCEPT
           !.adds[k].pc = "write",
           !.adds[k].queue = Append(offline.stored,
                                    QueueItem(offline.adds[k].id, 0))]
    /\ UNCHANGED <<scan, lookup>>
    /\ UNCHANGED deviceVars
    /\ UNCHANGED codecVars

\* setItem settled: the queue of this call is what is stored; queueAction
\* returns
QueueWrite(k) ==
    /\ k \in DOMAIN offline.adds
    /\ offline.adds[k].pc = "write"
    /\ offline' = [offline EXCEPT
           !.adds[k].pc = "done",
           !.stored = offline.adds[k].queue,
           !.queued = @ \cup {offline.adds[k].id}]
    /\ UNCHANGED <<scan, lookup>>
    /\ UNCHANGED deviceVars
    /\ UNCHANGED codecVars

\* syncOfflineQueue past its guard (online, no run in progress), up to the
\* await in getOfflineQueue
SyncStarted(o) ==
    IF o.isOnline /\ ~o.syncInProgress /\ o.syncs < MaxSyncs
    THEN [o EXCEPT !.syncInProgress = TRUE, !.sync.pc = "read",
                   !.syncs = @ + 1]
    ELSE o

\* handleNetworkChange(state): isOnline is set, and syncOfflineQueue called
\* when the service comes back online
NetworkChange(online) ==
    /\ online # offline.isOnline
    /\ offline' = IF online
                  THEN SyncStarted([offline EXCEPT !.isOnline = TRUE])
                  ELSE [offline EXCEPT !.isOnline = FALSE]
    /\ UNCHANGED <<scan, lookup>>
    /\ UNCHANGED deviceVars
    /\ UNCHANGED codecVars

\* syncOfflineQueue() called by the application while online
SyncBegin ==
    /\ offline.isOnline /\ ~offline.syncInProgress /\ offline.syncs < MaxSyncs
    /\ offline' = SyncStarted(offline)
    /\ UNCHANGED <<scan, lookup>>
    /\ UNCHANGED deviceVars
    /\ UNCHANGED codecVars

\* getItem settled: the run has its copy of the queue and starts the loop
SyncRead ==
    /\ offline.sync.pc = "read"
    /\ offline' = [offline EXCEPT
           !.sync = [pc |-> IF offline.stored = <<>> THEN "write" ELSE "process",
                     queue |-> offline.stored, i |-> 1,
                     remainingItems |-> <<>>]]
    /\ UNCHANGED <<scan, lookup>>
    /\ UNCHANGED deviceVars
    /\ UNCHANGED codecVars

\* processQueueItem(item) settled: a synced item is dropped, a failed one is
\* kept with retryCount + 1 unless that reaches 5; after the last item the
\* remaining items are handed to setItem
SyncProcess(success) ==
    /\ offline.sync.pc = "process"
    /\ LET s == offline.sync
           item == s.queue[s.i]
           retried == QueueItem(item.id, item.retryCount + 1)
           kept == ~success /\ retried.retryCount < MaxRetries
       IN  offline' = [offline EXCEPT
               !.sync.remainingItems = IF kept THEN Append(@, retried) ELSE @,
               !.sync.i = @ + 1,
               !.sync.pc = IF s.i = Len(s.queue) THEN "write" ELSE "process",
               !.processed = IF kept THEN @ ELSE @ \cup {item.id}]
    /\ UNCHANGED <<scan, lookup>>
    /\ UNCHANGED deviceVars
    /\ UNCHANGED codecVars

\* setItem settled: the remaining items are what is stored; the finally
\* block ends the run
SyncWrite ==
    /\ offline.sync.pc = "write"
    /\ offline' = [offline EXCEPT
           !.stored = offline.sync.remainingItems,
           !.syncInProgress = FALSE,
           !.sync = OfflineIdle.sync]
    /\ UNCHANGED <<scan, lookup>>
    /\ UNCHANGED deviceVars
    /\ UNCHANGED codecVars

QueueReadSettles == \E k \in 1..MaxQueued : QueueRead(k)

QueueWriteSettles == \E k \in 1..MaxQueued : QueueWrite(k)

NetworkChanges == \E online \in BOOLEAN : NetworkChange(online)

ItemSettles == \E success \in BOOLEAN : SyncProcess(success)

OfflineInit ==
    /\ CodecIdle
    /\ connectedDevice = NoDevice
    /\ discoveredDevices = <<>>
    /\ customConnected = NoDevice
    /\ printQueue = <<>>
    /\ calls = <<>>
    /\ events = <<>>
    /\ writes = <<>>
    /\ now = 1
    /\ dpc = "idle"
    /\ conn = [pc |-> "idle", dev |-> NoDevice]
    /\ slice = InitialSlice
    /\ poll = PollIdle
    /\ scan = ScanIdle
    /\ lookup = LookupIdle
    /\ offline \in OfflineStart

OfflineNext ==
    \/ QueueBegin \/ QueueReadSettles \/ QueueWriteSettles \/ NetworkChanges
    \/ SyncBegin \/ SyncRead \/ ItemSettles \/ SyncWrite

OfflineSpec == OfflineInit /\ [][OfflineNext]_vars

(***************************************************************************)
(* C28: no queued action is lost                                           *)
(***************************************************************************)
\* C28: every item whose queueAction returned is in the stored offline queue
\* until a syncOfflineQueue run has processed it (synced it, or failed on it
\* for the fifth time), in every interleaving of queueAction calls with each
\* other and with a running syncOfflineQueue.
C28_NoActionLost ==
    \A id \in offline.queued :
        id \in Ids(offline.stored) \/ id \in offline.processed

====
